---- MODULE Spec2Model ----
(***************************************************************************)
(* A model of rwlock.h: class Semaphore (a binary semaphore built from a   *)
(* mutex-guarded count and a condition variable) and class RWLock (a       *)
(* readers-writers lock with three policies built from four semaphores     *)
(* and two counters).                                                      *)
(*                                                                         *)
(* Each thread is either outside the lock (pc = 0) or inside one of the    *)
(* private functions of RWLock, about to execute the source line pc.       *)
(* One step of a thread is one access to shared state: one critical        *)
(* section of a Semaphore's m_mutex, one notify_one, or one access to a    *)
(* counter.                                                                *)
(***************************************************************************)
EXTENDS Integers, FiniteSets

\* Number of threads that use the lock.
NumThreads == 3

Threads == 1..NumThreads

\* RWLockMode (rwlock.h:73-78).
RWLockMode == {"ReadersPriority", "WritersPriority", "FairOrder"}

\* The four Semaphore members of RWLock (rwlock.h:104).
Semaphores == {"m_order", "m_resource", "m_rmutex", "m_wmutex"}

VARIABLES
    m_mode,        \* RWLock::m_mode
    m_avail,       \* Semaphore::m_avail of each of the four semaphores
    cvWait,        \* per semaphore: the threads blocked in m_cv.wait
    m_readcount,   \* RWLock::m_readcount
    m_writecount,  \* RWLock::m_writecount
    pc,            \* per thread: 0 outside the lock, else the source line it is at
    notifying,     \* per thread: inside Semaphore::Release, m_avail++ done, notify_one not yet
    held,          \* per thread: what its caller holds: "none", "shared", "exclusive"
    watched,       \* history: the thread whose pending or standing exclusive
                   \* acquisition is being watched, 0 when none is
    heldBefore,    \* history: the threads that held shared access when the watched
                   \* thread called AcquireExclusive and have held it ever since
    arrival        \* history, per thread: what held of the watched acquisition when
                   \* the thread called AcquireShared (see AcquireShared)

vars == <<m_mode, m_avail, cvWait, m_readcount, m_writecount, pc, notifying, held,
          watched, heldBefore, arrival>>

history == <<watched, heldBefore, arrival>>

TypeOK ==
    /\ m_mode \in RWLockMode
    /\ m_avail \in [Semaphores -> Nat]
    /\ cvWait \in [Semaphores -> SUBSET Threads]
    /\ m_readcount \in Int
    /\ m_writecount \in Int
    /\ pc \in [Threads -> Nat]
    /\ notifying \in [Threads -> BOOLEAN]
    /\ held \in [Threads -> {"none", "shared", "exclusive"}]
    /\ watched \in Threads \cup {0}
    /\ heldBefore \in SUBSET Threads
    /\ arrival \in [Threads -> SUBSET {"afterCall", "readerHolds", "writerBlocked"}]

\* RWLock(RWLockMode mode): every semaphore available, both counters 0.
\* No thread is inside the lock.
Construct(mode) ==
    /\ m_mode = mode
    /\ m_avail = [s \in Semaphores |-> 1]
    /\ cvWait = [s \in Semaphores |-> {}]
    /\ m_readcount = 0
    /\ m_writecount = 0
    /\ pc = [t \in Threads |-> 0]
    /\ notifying = [t \in Threads |-> FALSE]
    /\ held = [t \in Threads |-> "none"]
    /\ watched = 0
    /\ heldBefore = {}
    /\ arrival = [t \in Threads |-> {}]

Init == \E mode \in RWLockMode : Construct(mode)

----------------------------------------------------------------------------
\* Control flow of a thread.

\* The thread is blocked inside m_cv.wait of some semaphore.
Blocked(t) == \E s \in Semaphores : t \in cvWait[s]

\* The thread is about to execute source line l.
At(t, l) == pc[t] = l /\ ~notifying[t] /\ ~Blocked(t)

Goto(t, l) == pc' = [pc EXCEPT ![t] = l]

\* The thread is between the return of its AcquireShared and its call of
\* ReleaseShared.
InShared(t) == pc[t] = 0 /\ held[t] = "shared"

\* The thread is between the return of its AcquireExclusive and its call of
\* ReleaseExclusive.
InExclusive(t) == pc[t] = 0 /\ held[t] = "exclusive"

\* The thread has called AcquireShared or AcquireExclusive, which has not
\* returned yet.
Acquiring(t) == pc[t] # 0 /\ held[t] = "none"

\* The thread has called ReleaseShared or ReleaseExclusive, which has not
\* returned yet.
Releasing(t) == pc[t] # 0 /\ held[t] # "none"

----------------------------------------------------------------------------
\* class Semaphore.

\* A slip in the wait predicate: a gate that is held still lets a thread in.
AvailableToAnyone(s) == m_avail[s] >= 0

\* The wait predicate of Semaphore::Acquire: [this] { return m_avail > 0; }.
Available(s) == m_avail[s] > 0

\* A slip in Semaphore::Acquire: `m_avail--` left out.
AcquireWithoutDecrement(t, s, l) ==
    IF Available(s)
    THEN /\ Goto(t, l)
         /\ UNCHANGED <<m_avail, cvWait>>
    ELSE /\ cvWait' = [cvWait EXCEPT ![s] = @ \cup {t}]
         /\ UNCHANGED <<m_avail, pc>>

\* Semaphore::Acquire, one critical section of m_mutex: with the predicate
\* true, m_avail-- and the caller goes on to line l; with it false the thread
\* blocks in m_cv.wait, and checks again once it is woken.
Acquire(t, s, l) ==
    IF Available(s)
    THEN /\ m_avail' = [m_avail EXCEPT ![s] = @ - 1]
         /\ Goto(t, l)
         /\ UNCHANGED cvWait
    ELSE /\ cvWait' = [cvWait EXCEPT ![s] = @ \cup {t}]
         /\ UNCHANGED <<m_avail, pc>>

\* Semaphore::Release, first part: m_avail++ under m_mutex.
ReleaseCount(t, s) ==
    /\ m_avail' = [m_avail EXCEPT ![s] = @ + 1]
    /\ notifying' = [notifying EXCEPT ![t] = TRUE]

\* Semaphore::Release, second part: m_cv.notify_one() wakes one of the
\* threads blocked in m_cv.wait, any of them, if there is one.
NotifyOne(t, s) ==
    /\ notifying' = [notifying EXCEPT ![t] = FALSE]
    /\ \/ /\ cvWait[s] = {}
          /\ UNCHANGED cvWait
       \/ \E w \in cvWait[s] : cvWait' = [cvWait EXCEPT ![s] = @ \ {w}]

\* condition_variable::wait may return without a notification; the thread
\* then checks the predicate again.
SpuriousWake(t) ==
    /\ \E s \in Semaphores :
          /\ t \in cvWait[s]
          /\ cvWait' = [cvWait EXCEPT ![s] = @ \ {t}]
    /\ UNCHANGED <<m_mode, m_avail, m_readcount, m_writecount, pc, notifying, held, history>>

----------------------------------------------------------------------------
\* One statement of RWLock at source line `line`; `next` is the line that
\* follows it, or 0 when the function returns after it, and then its caller
\* holds h.

HeldAfter(t, h) == IF pc'[t] = 0 THEN [held EXCEPT ![t] = h] ELSE held

\* line: `s.Acquire();`
SemAcquire(t, line, s, next, h) ==
    /\ At(t, line)
    /\ Acquire(t, s, next)
    /\ held' = HeldAfter(t, h)
    /\ UNCHANGED <<m_mode, m_readcount, m_writecount, notifying, history>>

\* line: `s.Release();`
SemRelease(t, line, s, next, h) ==
    /\ pc[t] = line
    /\ \/ /\ ~notifying[t]
          /\ ReleaseCount(t, s)
          /\ UNCHANGED <<cvWait, pc, held>>
       \/ /\ notifying[t]
          /\ NotifyOne(t, s)
          /\ Goto(t, next)
          /\ held' = HeldAfter(t, h)
          /\ UNCHANGED m_avail
    /\ UNCHANGED <<m_mode, m_readcount, m_writecount, history>>

\* A slip in the test of the first reader: `>= 1` for `== 1`.
FirstReaderEveryReader(n) == n >= 1

\* line: `if (++m_readcount == 1)`, the guarded statement at line `first`.
FirstReader(n) == n = 1

\* A slip in the first reader's branch: the guarded statement is skipped.
IncReadCountBranchSkipped(t, line, first, next) ==
    /\ At(t, line)
    /\ m_readcount' = m_readcount + 1
    /\ Goto(t, next)
    /\ UNCHANGED <<m_mode, m_avail, cvWait, m_writecount, notifying, held, history>>

IncReadCount(t, line, first, next) ==
    /\ At(t, line)
    /\ m_readcount' = m_readcount + 1
    /\ Goto(t, IF FirstReader(m_readcount') THEN first ELSE next)
    /\ UNCHANGED <<m_mode, m_avail, cvWait, m_writecount, notifying, held, history>>

\* A slip in the test of the last reader: `<= 1` for `== 0`.
LastReaderTooEarly(n) == n <= 1

\* line: `if (--m_readcount == 0)`, the guarded statement at line `last`.
LastReader(n) == n = 0

DecReadCount(t, line, last, next) ==
    /\ At(t, line)
    /\ m_readcount' = m_readcount - 1
    /\ Goto(t, IF LastReader(m_readcount') THEN last ELSE next)
    /\ UNCHANGED <<m_mode, m_avail, cvWait, m_writecount, notifying, held, history>>

\* A slip in the test of the first writer: the value before the increment.
FirstWriterPostIncrement(n) == n - 1 = 1

\* line: `if (++m_writecount == 1)`, the guarded statement at line `first`.
FirstWriter(n) == n = 1

IncWriteCount(t, line, first, next) ==
    /\ At(t, line)
    /\ m_writecount' = m_writecount + 1
    /\ Goto(t, IF FirstWriter(m_writecount') THEN first ELSE next)
    /\ UNCHANGED <<m_mode, m_avail, cvWait, m_readcount, notifying, held, history>>

\* A slip in the test of the last writer: `>= 0` for `== 0`.
LastWriterEveryWriter(n) == n >= 0

\* line: `if (--m_writecount == 0)`, the guarded statement at line `last`.
LastWriter(n) == n = 0

\* A slip in the statement: `m_writecount - 1 == 0`, which tests the
\* decremented value and does not store it.
DecWriteCountNotStored(t, line, last, next) ==
    /\ At(t, line)
    /\ m_writecount' = m_writecount
    /\ Goto(t, IF LastWriter(m_writecount - 1) THEN last ELSE next)
    /\ UNCHANGED <<m_mode, m_avail, cvWait, m_readcount, notifying, held, history>>

DecWriteCount(t, line, last, next) ==
    /\ At(t, line)
    /\ m_writecount' = m_writecount - 1
    /\ Goto(t, IF LastWriter(m_writecount') THEN last ELSE next)
    /\ UNCHANGED <<m_mode, m_avail, cvWait, m_readcount, notifying, held, history>>

----------------------------------------------------------------------------
\* class RWLock: the private functions of the three policies.

\* A slip in the semaphore: the writer acquires m_wmutex, which no reader of
\* this policy holds, instead of m_resource.
AcquireExclusive1WrongGate(t) ==
    SemAcquire(t, 110, "m_wmutex", 0, "exclusive")

AcquireExclusive1(t) ==
    SemAcquire(t, 110, "m_resource", 0, "exclusive")

\* A slip in the first writer's branch: line 117, m_order.Acquire(), is
\* never reached.
AcquireExclusive2GateNotTaken(t) ==
    \/ SemAcquire(t, 115, "m_wmutex", 116, held[t])
    \/ IncWriteCount(t, 116, 118, 118)
    \/ SemRelease(t, 118, "m_wmutex", 119, held[t])
    \/ SemAcquire(t, 119, "m_resource", 0, "exclusive")

AcquireExclusive2(t) ==
    \/ SemAcquire(t, 115, "m_wmutex", 116, held[t])
    \/ IncWriteCount(t, 116, 117, 118)
    \/ SemAcquire(t, 117, "m_order", 118, held[t])
    \/ SemRelease(t, 118, "m_wmutex", 119, held[t])
    \/ SemAcquire(t, 119, "m_resource", 0, "exclusive")

\* A slip in the order of the statements: m_order released at line 126
\* before m_resource is acquired at line 125.
AcquireExclusive3GateReleasedFirst(t) ==
    \/ SemAcquire(t, 124, "m_order", 126, held[t])
    \/ SemRelease(t, 126, "m_order", 125, held[t])
    \/ SemAcquire(t, 125, "m_resource", 0, "exclusive")

\* A slip at the end of the function: it returns after line 125 and
\* line 126, m_order.Release(), is not executed.
AcquireExclusive3GateKept(t) ==
    \/ SemAcquire(t, 124, "m_order", 125, held[t])
    \/ SemAcquire(t, 125, "m_resource", 0, "exclusive")

AcquireExclusive3(t) ==
    \/ SemAcquire(t, 124, "m_order", 125, held[t])
    \/ SemAcquire(t, 125, "m_resource", 126, held[t])
    \/ SemRelease(t, 126, "m_order", 0, "exclusive")

ReleaseExclusive1(t) ==
    SemRelease(t, 131, "m_resource", 0, "none")

ReleaseExclusive2(t) ==
    \/ SemRelease(t, 136, "m_resource", 137, held[t])
    \/ SemAcquire(t, 137, "m_wmutex", 138, held[t])
    \/ DecWriteCount(t, 138, 139, 140)
    \/ SemRelease(t, 139, "m_order", 140, held[t])
    \/ SemRelease(t, 140, "m_wmutex", 0, "none")

\* A slip in the semaphore: the writer releases m_order, which it gave back
\* at line 126, instead of m_resource.
ReleaseExclusive3WrongGate(t) ==
    SemRelease(t, 145, "m_order", 0, "none")

ReleaseExclusive3(t) ==
    SemRelease(t, 145, "m_resource", 0, "none")

\* A slip in the order of the statements: m_rmutex released at line 153
\* before the first reader acquires m_resource at line 152.
AcquireShared1MutexReleasedFirst(t) ==
    \/ SemAcquire(t, 150, "m_rmutex", 151, held[t])
    \/ IncReadCount(t, 151, 153, 153)
    \/ SemRelease(t, 153, "m_rmutex",
                  IF m_readcount = 1 THEN 152 ELSE 0, "shared")
    \/ SemAcquire(t, 152, "m_resource", 0, "shared")

AcquireShared1(t) ==
    \/ SemAcquire(t, 150, "m_rmutex", 151, held[t])
    \/ IncReadCount(t, 151, 152, 153)
    \/ SemAcquire(t, 152, "m_resource", 153, held[t])
    \/ SemRelease(t, 153, "m_rmutex", 0, "shared")

\* A slip at the end of the function: line 163, m_order.Release(), left out.
AcquireShared2GateKept(t) ==
    \/ SemAcquire(t, 158, "m_order", 159, held[t])
    \/ SemAcquire(t, 159, "m_rmutex", 160, held[t])
    \/ IncReadCount(t, 160, 161, 162)
    \/ SemAcquire(t, 161, "m_resource", 162, held[t])
    \/ SemRelease(t, 162, "m_rmutex", 0, "shared")

AcquireShared2(t) ==
    \/ SemAcquire(t, 158, "m_order", 159, held[t])
    \/ SemAcquire(t, 159, "m_rmutex", 160, held[t])
    \/ IncReadCount(t, 160, 161, 162)
    \/ SemAcquire(t, 161, "m_resource", 162, held[t])
    \/ SemRelease(t, 162, "m_rmutex", 163, held[t])
    \/ SemRelease(t, 163, "m_order", 0, "shared")

\* A slip in the order of the statements: m_rmutex acquired at line 168
\* before m_order at line 169.
AcquireShared3MutexFirst(t) ==
    \/ SemAcquire(t, 168, "m_rmutex", 169, held[t])
    \/ SemAcquire(t, 169, "m_order", 170, held[t])
    \/ IncReadCount(t, 170, 171, 172)
    \/ SemAcquire(t, 171, "m_resource", 172, held[t])
    \/ SemRelease(t, 172, "m_order", 173, held[t])
    \/ SemRelease(t, 173, "m_rmutex", 0, "shared")

AcquireShared3(t) ==
    \/ SemAcquire(t, 168, "m_order", 169, held[t])
    \/ SemAcquire(t, 169, "m_rmutex", 170, held[t])
    \/ IncReadCount(t, 170, 171, 172)
    \/ SemAcquire(t, 171, "m_resource", 172, held[t])
    \/ SemRelease(t, 172, "m_order", 173, held[t])
    \/ SemRelease(t, 173, "m_rmutex", 0, "shared")

ReleaseShared1(t) ==
    \/ SemAcquire(t, 178, "m_rmutex", 179, held[t])
    \/ DecReadCount(t, 179, 180, 181)
    \/ SemRelease(t, 180, "m_resource", 181, held[t])
    \/ SemRelease(t, 181, "m_rmutex", 0, "none")

\* A slip in the semaphore: the reader acquires m_wmutex at line 186 instead
\* of m_rmutex.
ReleaseShared2WrongMutex(t) ==
    \/ SemAcquire(t, 186, "m_wmutex", 187, held[t])
    \/ DecReadCount(t, 187, 188, 189)
    \/ SemRelease(t, 188, "m_resource", 189, held[t])
    \/ SemRelease(t, 189, "m_rmutex", 0, "none")

ReleaseShared2(t) ==
    \/ SemAcquire(t, 186, "m_rmutex", 187, held[t])
    \/ DecReadCount(t, 187, 188, 189)
    \/ SemRelease(t, 188, "m_resource", 189, held[t])
    \/ SemRelease(t, 189, "m_rmutex", 0, "none")

\* A slip in the last reader's release: line 196, m_resource.Release(), is
\* never reached.
ReleaseShared3ResourceKept(t) ==
    \/ SemAcquire(t, 194, "m_rmutex", 195, held[t])
    \/ DecReadCount(t, 195, 197, 197)
    \/ SemRelease(t, 197, "m_rmutex", 0, "none")

ReleaseShared3(t) ==
    \/ SemAcquire(t, 194, "m_rmutex", 195, held[t])
    \/ DecReadCount(t, 195, 196, 197)
    \/ SemRelease(t, 196, "m_resource", 197, held[t])
    \/ SemRelease(t, 197, "m_rmutex", 0, "none")

----------------------------------------------------------------------------
\* class RWLock: the public operations. A call enters the function that the
\* switch on m_mode selects. The callers make balanced, non-recursive calls:
\* a thread acquires only while it holds nothing and releases only what it
\* holds.

\* A call by a thread that holds h enters at line l.
Enter(t, h, l) ==
    /\ pc[t] = 0
    /\ held[t] = h
    /\ Goto(t, l)
    /\ UNCHANGED <<m_mode, m_avail, cvWait, m_readcount, m_writecount, notifying, held>>

AcquireExclusiveEntry ==
    CASE m_mode = "ReadersPriority" -> 110
      [] m_mode = "WritersPriority" -> 115
      [] OTHER -> 124

AcquireExclusive(t) ==
    /\ Enter(t, "none", AcquireExclusiveEntry)
    /\ UNCHANGED history

\* The same call, taken as the watched one: the history starts with the
\* threads that hold shared access now.
WatchedAcquireExclusive(t) ==
    /\ watched = 0
    /\ Enter(t, "none", AcquireExclusiveEntry)
    /\ watched' = t
    /\ heldBefore' = {u \in Threads : InShared(u)}
    /\ UNCHANGED arrival

\* AcquireExclusive called by a thread that has not released what it holds:
\* the lock keeps no owner, so the call runs the same statements.
RecursiveAcquireExclusive(t) ==
    /\ held[t] # "none"
    /\ Enter(t, held[t], AcquireExclusiveEntry)
    /\ UNCHANGED history

\* The thread is inside such a call.
InRecursiveAcquire(t) ==
    /\ held[t] # "none"
    /\ pc[t] \in {110, 115, 116, 117, 118, 119, 124, 125, 126}

\* The watched acquisition ends with the call of ReleaseExclusive.
ReleaseExclusive(t) ==
    /\ Enter(t, "exclusive", CASE m_mode = "ReadersPriority" -> 131
                                [] m_mode = "WritersPriority" -> 136
                                [] OTHER -> 145)
    /\ IF watched = t
       THEN /\ watched' = 0
            /\ heldBefore' = {}
            /\ arrival' = [u \in Threads |-> {}]
       ELSE UNCHANGED history

\* The history records what holds of the watched AcquireExclusive at this
\* call: "afterCall", it was called before and its ReleaseExclusive has not
\* been called; "readerHolds", a thread that held shared access when it was
\* called still holds it; "writerBlocked", moreover it is blocked in m_cv.wait.
AcquireShared(t) ==
    /\ Enter(t, "none", CASE m_mode = "ReadersPriority" -> 150
                           [] m_mode = "WritersPriority" -> 158
                           [] OTHER -> 168)
    /\ arrival' = [arrival EXCEPT ![t] =
                      IF watched = 0 THEN {}
                      ELSE {"afterCall"}
                           \cup (IF heldBefore # {} THEN {"readerHolds"} ELSE {})
                           \cup (IF heldBefore # {} /\ Blocked(watched)
                                 THEN {"writerBlocked"} ELSE {})]
    /\ UNCHANGED <<watched, heldBefore>>

ReleaseShared(t) ==
    /\ Enter(t, "shared", CASE m_mode = "ReadersPriority" -> 178
                             [] m_mode = "WritersPriority" -> 186
                             [] OTHER -> 194)
    /\ heldBefore' = heldBefore \ {t}
    /\ arrival' = [arrival EXCEPT ![t] = {}]
    /\ UNCHANGED watched

----------------------------------------------------------------------------
\* The steps of one thread, and the lock used by NumThreads threads that
\* acquire and release again and again, each time as a reader or a writer.

Calls(t) ==
    \/ AcquireExclusive(t)
    \/ ReleaseExclusive(t)
    \/ AcquireShared(t)
    \/ ReleaseShared(t)

Policy1(t) ==
    \/ AcquireExclusive1(t)
    \/ ReleaseExclusive1(t)
    \/ AcquireShared1(t)
    \/ ReleaseShared1(t)

Policy2(t) ==
    \/ AcquireExclusive2(t)
    \/ ReleaseExclusive2(t)
    \/ AcquireShared2(t)
    \/ ReleaseShared2(t)

Policy3(t) ==
    \/ AcquireExclusive3(t)
    \/ ReleaseExclusive3(t)
    \/ AcquireShared3(t)
    \/ ReleaseShared3(t)

Step(t) == Calls(t) \/ Policy1(t) \/ Policy2(t) \/ Policy3(t)

Next == \E t \in Threads : Step(t) \/ SpuriousWake(t)

Spec == Init /\ [][Next]_vars

\* The same threads, which may also call AcquireExclusive again before
\* releasing.
NextRecursive ==
    \E t \in Threads :
        Step(t) \/ RecursiveAcquireExclusive(t) \/ SpuriousWake(t)

SpecRecursive == Init /\ [][NextRecursive]_vars

----------------------------------------------------------------------------
\* The lock of one policy, with the history of the arrivals around one
\* exclusive acquisition at a time.

NextReadersPriority ==
    \E t \in Threads :
        Calls(t) \/ WatchedAcquireExclusive(t) \/ Policy1(t) \/ SpuriousWake(t)

NextWritersPriority ==
    \E t \in Threads :
        Calls(t) \/ WatchedAcquireExclusive(t) \/ Policy2(t) \/ SpuriousWake(t)

NextFairOrder ==
    \E t \in Threads :
        Calls(t) \/ WatchedAcquireExclusive(t) \/ Policy3(t) \/ SpuriousWake(t)

SpecReadersPriority == Construct("ReadersPriority") /\ [][NextReadersPriority]_vars

SpecWritersPriority == Construct("WritersPriority") /\ [][NextWritersPriority]_vars

SpecFairOrder == Construct("FairOrder") /\ [][NextFairOrder]_vars

----------------------------------------------------------------------------
\* The FairOrder lock under a fair scheduler. A thread inside the lock that is
\* not blocked in m_cv.wait keeps running, and keeps running even if it can
\* run only again and again (strong fairness: a thread that is woken again and
\* again is scheduled); a thread that holds access eventually calls the
\* matching Release. Nothing obliges a thread to call an Acquire, and nothing
\* obliges a wake-up without a notify_one.

NextFairOrderPlain ==
    \E t \in Threads : Calls(t) \/ Policy3(t) \/ SpuriousWake(t)

FairScheduler3 ==
    \A t \in Threads :
        /\ SF_vars(Policy3(t))
        /\ WF_vars(ReleaseShared(t))
        /\ WF_vars(ReleaseExclusive(t))

SpecFairOrderScheduled ==
    Construct("FairOrder") /\ [][NextFairOrderPlain]_vars /\ FairScheduler3

----------------------------------------------------------------------------
\* Readers only: every thread calls AcquireShared once and holds on; no
\* thread calls AcquireExclusive or a Release. The scheduler is fair: a thread
\* calls, and a thread inside AcquireShared that is not blocked in m_cv.wait
\* runs on.

NextReaders ==
    \E t \in Threads :
        \/ AcquireShared(t)
        \/ AcquireShared1(t)
        \/ AcquireShared2(t)
        \/ AcquireShared3(t)
        \/ SpuriousWake(t)

FairReaders ==
    \A t \in Threads :
        /\ WF_vars(AcquireShared(t))
        /\ WF_vars(AcquireShared1(t) \/ AcquireShared2(t) \/ AcquireShared3(t))

SpecReaders == Init /\ [][NextReaders]_vars /\ FairReaders

----------------------------------------------------------------------------
\* A ReadersPriority lock with one writer and a stream of overlapping
\* readers. The threads acquire and release shared access again and again; a
\* reader calls ReleaseShared only while another reader holds shared access,
\* so that the holds overlap. One thread, once, calls AcquireExclusive while
\* some reader holds shared access.

WriterArrives(t) ==
    /\ \A u \in Threads : pc[u] # 110
    /\ \E r \in Threads : InShared(r)
    /\ AcquireExclusive(t)

OverlappedReleaseShared(t) ==
    /\ \E r \in Threads \ {t} : InShared(r)
    /\ ReleaseShared(t)

\* ReleaseShared1 of a reader that is not the last one: line 180 is not
\* executed.
ReleaseShared1NotLast(t) ==
    \/ SemAcquire(t, 178, "m_rmutex", 179, held[t])
    \/ DecReadCount(t, 179, 180, 181)
    \/ SemRelease(t, 181, "m_rmutex", 0, "none")

Running1(t) == AcquireExclusive1(t) \/ AcquireShared1(t) \/ ReleaseShared1NotLast(t)

NextOverlappingReaders ==
    \E t \in Threads :
        \/ WriterArrives(t)
        \/ AcquireShared(t)
        \/ OverlappedReleaseShared(t)
        \/ AcquireExclusive1(t)
        \/ AcquireShared1(t)
        \/ ReleaseShared1NotLast(t)
        \/ SpuriousWake(t)

\* A step of thread t that gets it past a statement, or past the first half
\* of a Release; not a step into m_cv.wait.
Advance(t) == pc'[t] # pc[t] \/ notifying'[t] # notifying[t]

\* Fair scheduling: a thread that again and again can get past its statement
\* does so; the threads make their calls.
FairOverlappingReaders ==
    /\ SF_vars(\E t \in Threads : WriterArrives(t))
    /\ \A t \in Threads :
        /\ SF_vars(Running1(t) /\ Advance(t))
        /\ WF_vars(AcquireShared(t))
        /\ SF_vars(OverlappedReleaseShared(t))

SpecOverlappingReaders ==
    /\ Construct("ReadersPriority")
    /\ [][NextOverlappingReaders]_vars
    /\ FairOverlappingReaders

----------------------------------------------------------------------------
\* A WritersPriority lock with one reader and a stream of writers. The first
\* thread is the reader: it calls AcquireShared once some writer holds
\* exclusive access. The other threads are writers that acquire and release
\* again and again; a writer calls ReleaseExclusive only while another writer
\* is registered in m_writecount and waits for its turn (lines 118 and 119).

Reader == CHOOSE t \in Threads : \A u \in Threads : t <= u

ReaderArrives(t) ==
    /\ t = Reader
    /\ \E w \in Threads : InExclusive(w)
    /\ AcquireShared(t)

WriterCalls(t) ==
    /\ t # Reader
    /\ AcquireExclusive(t)

OverlappedReleaseExclusive(t) ==
    /\ \E w \in Threads \ {t} : pc[w] \in {118, 119}
    /\ ReleaseExclusive(t)

\* AcquireShared2 of a reader that does not get past line 158.
AcquireShared2AtGate(t) ==
    SemAcquire(t, 158, "m_order", 159, held[t])

\* ReleaseExclusive2 of a writer that is not the last one: line 139 is not
\* executed.
ReleaseExclusive2NotLast(t) ==
    \/ SemRelease(t, 136, "m_resource", 137, held[t])
    \/ SemAcquire(t, 137, "m_wmutex", 138, held[t])
    \/ DecWriteCount(t, 138, 139, 140)
    \/ SemRelease(t, 140, "m_wmutex", 0, "none")

Running2(t) ==
    AcquireExclusive2(t) \/ AcquireShared2AtGate(t) \/ ReleaseExclusive2NotLast(t)

NextStreamOfWriters ==
    \E t \in Threads :
        \/ ReaderArrives(t)
        \/ WriterCalls(t)
        \/ OverlappedReleaseExclusive(t)
        \/ AcquireExclusive2(t)
        \/ AcquireShared2AtGate(t)
        \/ ReleaseExclusive2NotLast(t)
        \/ SpuriousWake(t)

FairStreamOfWriters ==
    /\ SF_vars(ReaderArrives(Reader))
    /\ \A t \in Threads :
        /\ SF_vars(Running2(t) /\ Advance(t))
        /\ WF_vars(WriterCalls(t))
        /\ SF_vars(OverlappedReleaseExclusive(t))

SpecStreamOfWriters ==
    /\ Construct("WritersPriority")
    /\ [][NextStreamOfWriters]_vars
    /\ FairStreamOfWriters

----------------------------------------------------------------------------
\* The lock seen at the level of m_resource: who has acquired it and not yet
\* released it.

\* A writer has acquired m_resource (lines 110, 119, 125) and has not yet
\* incremented it in its ReleaseExclusive (lines 131, 136, 145).
WriterHolds(t) ==
    \/ pc[t] = 126
    \/ /\ held[t] = "exclusive"
       /\ pc[t] = 0 \/ (pc[t] \in {131, 136, 145} /\ ~notifying[t])

\* The readers hold m_resource: the first reader has acquired it (lines 152,
\* 161, 171) and the last reader has not yet incremented it (lines 180, 188,
\* 196).
ReadersHold ==
    \/ m_readcount >= 1 /\ \A t \in Threads : pc[t] \notin {152, 161, 171}
    \/ m_readcount = 0
           /\ \E t \in Threads : pc[t] \in {180, 188, 196} /\ ~notifying[t]

Idle == <<"Idle", 0>>

SharedHeld(n) == <<"SharedHeld", n>>

ExclusiveHeld == <<"ExclusiveHeld", 0>>

Inconsistent == <<"Inconsistent", 0>>

\* The state of the lock. SharedHeld counts the readers registered in
\* m_readcount; the last reader, which has decremented m_readcount to 0 and
\* not yet released m_resource, still counts. Any other combination of the
\* holders, of m_resource and of the threads to which an Acquire has returned
\* is Inconsistent.
LockState ==
    LET writers == {t \in Threads : WriterHolds(t)}
        taken == m_avail["m_resource"] = 0
        free == m_avail["m_resource"] = 1
        sharing == \E t \in Threads : InShared(t)
    IN  CASE Cardinality(writers) = 1 /\ ~ReadersHold /\ taken /\ ~sharing
                 -> ExclusiveHeld
          [] writers = {} /\ ReadersHold /\ taken
                 -> SharedHeld(IF m_readcount >= 1 THEN m_readcount ELSE 1)
          [] writers = {} /\ ~ReadersHold /\ free /\ ~sharing
                 -> Idle
          [] OTHER -> Inconsistent

----------------------------------------------------------------------------
\* Who holds each gate: the thread, or the group of threads, whose Acquire of
\* it has succeeded and whose Release has not yet run m_avail++.

\* m_rmutex: acquired at lines 150, 159, 169, 178, 186, 194; released at
\* lines 153, 162, 173, 181, 189, 197.
HoldsRmutex(t) ==
    \/ pc[t] \in {151, 152, 160, 161, 170, 171, 172, 179, 180, 187, 188, 195, 196}
    \/ pc[t] \in {153, 162, 173, 181, 189, 197} /\ ~notifying[t]

\* m_wmutex: acquired at lines 115, 137; released at lines 118, 140.
HoldsWmutex(t) ==
    \/ pc[t] \in {116, 117, 138, 139}
    \/ pc[t] \in {118, 140} /\ ~notifying[t]

\* m_order held by one thread: a FairOrder writer (lines 124 to 126), a
\* FairOrder reader (lines 168 to 172), a WritersPriority reader (lines 158
\* to 163).
HoldsOrder(t) ==
    \/ pc[t] \in {125, 169, 170, 171, 159, 160, 161, 162}
    \/ pc[t] \in {126, 172, 163} /\ ~notifying[t]

\* m_order held for the WritersPriority writers: acquired at line 117 by the
\* writer that raised m_writecount to 1, released at line 139 by the writer
\* that lowered it to 0.
WritersHoldOrder ==
    \/ m_writecount >= 1 /\ \A t \in Threads : pc[t] # 117
    \/ m_writecount = 0 /\ \E t \in Threads : pc[t] = 139 /\ ~notifying[t]

\* The number of holders of a gate, a group counting as one.
Holders(s) ==
    CASE s = "m_rmutex" -> Cardinality({t \in Threads : HoldsRmutex(t)})
      [] s = "m_wmutex" -> Cardinality({t \in Threads : HoldsWmutex(t)})
      [] s = "m_order" -> Cardinality({t \in Threads : HoldsOrder(t)})
                            + (IF WritersHoldOrder THEN 1 ELSE 0)
      [] OTHER -> Cardinality({t \in Threads : WriterHolds(t)})
                    + (IF ReadersHold THEN 1 ELSE 0)

----------------------------------------------------------------------------
\* Properties.

\* C1. Mutual exclusion, under each policy: while a thread is between the
\* return of its AcquireExclusive and its call of ReleaseExclusive, no other
\* thread is between the return of its AcquireShared or AcquireExclusive and
\* its call of the matching Release. In particular at most one thread at a
\* time holds exclusive access.
MutualExclusion ==
    \A t \in Threads :
        InExclusive(t) =>
            \A u \in Threads \ {t} : ~InShared(u) /\ ~InExclusive(u)

\* A thread holds exclusive access while another has called an Acquire and is
\* blocked in m_cv.wait of m_resource.
MutualExclusionWitness ==
    \E t, u \in Threads :
        /\ t # u
        /\ InExclusive(t)
        /\ Acquiring(u)
        /\ u \in cvWait["m_resource"]

\* C2 as stated. WritersPriority: a reader whose AcquireShared was called
\* after a writer's AcquireExclusive and before that writer's ReleaseExclusive
\* does not return from AcquireShared while the writer has not released. The
\* history marks such a reader "afterCall" until the writer calls
\* ReleaseExclusive, so no marked reader holds shared access.
ReaderAfterWriterCallWaits ==
    \A R \in Threads : InShared(R) => "afterCall" \notin arrival[R]

\* A writer is past the order gate: m_order is held for the writers (line 117
\* was passed, by it or by the first writer) and it has not yet incremented
\* m_resource at line 136.
PastOrderGate(W) ==
    \/ pc[W] \in {118, 119}
    \/ held[W] = "exclusive" /\ (pc[W] = 0 \/ (pc[W] = 136 /\ ~notifying[W]))

\* C2. WritersPriority: from the moment a writer W is past the order gate
\* (the writers hold m_order) until W has released exclusive access, no
\* reader that has called AcquireShared and not yet acquired m_order at line
\* 158 gets past that line, whatever other writers do. A reader that called
\* after W's call but acquired m_order before the writers did is not held
\* back.
WriterPastGateBlocksReaders ==
    [][\A W, R \in Threads :
           PastOrderGate(W) /\ pc[R] = 158 => pc'[R] = 158]_vars

\* A reader called AcquireShared after the watched writer's call and is
\* blocked in m_cv.wait of m_order while that writer is past the order gate.
WriterPastGateBlocksReadersWitness ==
    \E R \in Threads :
        /\ watched # 0
        /\ PastOrderGate(watched)
        /\ pc[R] = 158
        /\ R \in cvWait["m_order"]
        /\ "afterCall" \in arrival[R]

\* C3 as stated. FairOrder: a reader R2 whose AcquireShared was called after
\* the call of a writer's AcquireExclusive, while a reader that held shared
\* access at the writer's call still held it, does not return before the
\* writer's AcquireExclusive has returned.
ReaderAfterWriterCallReturnsLater ==
    \A R2 \in Threads :
        InShared(R2) /\ {"afterCall", "readerHolds"} \subseteq arrival[R2]
            => held[watched] = "exclusive"

\* C3. FairOrder: the order of service is the order in which m_order is
\* acquired, not the order of the calls. While a writer W1 holds m_order
\* (lines 125 and 126, up to the increment of m_order), no reader that has
\* called AcquireShared and not yet acquired m_order at line 168 gets past
\* that line; and while W1 is at line 126, where it has acquired m_resource
\* and not yet returned, no reader holds shared access. So a reader that is
\* behind W1 at the order gate returns after W1; one that called after W1 and
\* acquired m_order before W1 is not held back.
WriterAtGateBeforeReader ==
    [][\A W1, R2 \in Threads :
           /\ pc[W1] \in {125, 126} /\ ~notifying[W1] /\ pc[R2] = 168
                  => pc'[R2] = 168
           /\ pc[W1] = 126 => ~InShared(R2)]_vars

\* R1 held shared access when the watched writer W1 called and still holds
\* it; W1 holds m_order and is blocked in m_cv.wait of m_resource; R2 called
\* after W1 and is blocked in m_cv.wait of m_order.
WriterAtGateBeforeReaderWitness ==
    \E R1, R2 \in Threads :
        /\ watched # 0
        /\ pc[watched] = 125
        /\ watched \in cvWait["m_resource"]
        /\ R1 \in heldBefore
        /\ InShared(R1)
        /\ pc[R2] = 168
        /\ R2 \in cvWait["m_order"]
        /\ {"afterCall", "readerHolds"} \subseteq arrival[R2]

\* C4 as stated. FairOrder, threads that always eventually release, fair
\* scheduler: every call of AcquireShared and of AcquireExclusive eventually
\* returns.
FairOrderNoStarvation ==
    \A t \in Threads : Acquiring(t) ~> ~Acquiring(t)

\* C5 as stated. ReadersPriority: a reader R3 that calls AcquireShared while
\* a reader holds shared access and a writer W is blocked in AcquireExclusive
\* returns while W is still waiting: as long as R3 has not returned, W has
\* not returned either.
ReaderNeverWaitsForWriter ==
    \A R3 \in Threads :
        /\ Acquiring(R3)
        /\ {"afterCall", "readerHolds", "writerBlocked"} \subseteq arrival[R3]
        => Acquiring(watched)

\* C5. ReadersPriority: as long as some reader holds shared access, a writer
\* W inside AcquireExclusive does not return (it does not get past line 110),
\* m_resource is not available, and no thread inside AcquireShared is at line
\* 152: a reader that arrives needs m_rmutex only and never waits for
\* m_resource, so never for W. Once the last holder has called ReleaseShared,
\* W may be served before a reader that has called AcquireShared and not yet
\* incremented m_readcount.
ReadersHoldWriterWaits ==
    [][\A W \in Threads :
           pc[W] = 110 /\ (\E R \in Threads : InShared(R))
               => /\ pc'[W] = 110
                  /\ ~Available("m_resource")
                  /\ \A R3 \in Threads : pc[R3] # 152]_vars

\* R1 holds shared access, the watched writer is blocked in m_cv.wait of
\* m_resource, and R3, which called AcquireShared in such a state, has
\* incremented m_readcount past line 152 and is about to return.
ReadersHoldWriterWaitsWitness ==
    \E R1, R3 \in Threads :
        /\ watched # 0
        /\ pc[watched] = 110
        /\ watched \in cvWait["m_resource"]
        /\ InShared(R1)
        /\ pc[R3] = 153
        /\ held[R3] = "none"
        /\ m_readcount >= 2
        /\ {"afterCall", "readerHolds", "writerBlocked"} \subseteq arrival[R3]

\* C6. Reader concurrency, under each policy: when every thread calls
\* AcquireShared, no thread calls AcquireExclusive and no reader releases,
\* then under fair scheduling every call returns: a state in which all the
\* threads hold shared access at the same time is reached.
AllReadersHoldTogether ==
    <>(\A t \in Threads : InShared(t))

\* Every thread holds shared access and has been counted; m_resource was
\* acquired once, by the first of them.
AllReadersHoldTogetherWitness ==
    /\ \A t \in Threads : pc[t] = 0 /\ held[t] = "shared"
    /\ m_readcount = NumThreads
    /\ m_avail["m_resource"] = 0

\* No thread is inside a call and every Acquire that returned has been
\* followed by its Release.
Quiescent == \A t \in Threads : pc[t] = 0 /\ held[t] = "none"

\* C7. Balanced accounting, under each policy: whenever a step ends with no
\* thread inside a call and every Acquire paired with its completed Release,
\* m_readcount is 0 and the lock is idle: m_resource is available.
BalancedAccounting ==
    [][Quiescent' => m_readcount' = 0 /\ m_avail'["m_resource"] = 1]_vars

\* The last Release in progress is about to return: one thread is at the
\* notify_one of the last statement of its Release call, every other thread
\* is outside the lock and holds nothing.
BalancedAccountingWitness ==
    \E t \in Threads :
        /\ Releasing(t)
        /\ notifying[t]
        /\ pc[t] \in {131, 140, 145, 181, 189, 197}
        /\ \A u \in Threads \ {t} : pc[u] = 0 /\ held[u] = "none"

\* The transitions of the state machine, from state a to state b.
Transition(a, b) ==
    \/ a = Idle /\ b = SharedHeld(1)
    \/ a[1] = "SharedHeld" /\ b = SharedHeld(a[2] + 1)
    \/ a[1] = "SharedHeld" /\ a[2] >= 2 /\ b = SharedHeld(a[2] - 1)
    \/ a = SharedHeld(1) /\ b = Idle
    \/ a = Idle /\ b = ExclusiveHeld
    \/ a = ExclusiveHeld /\ b = Idle

\* The transitions that do not add a reader.
TransitionBehindWriter(a, b) ==
    /\ Transition(a, b)
    /\ b[1] = "SharedHeld" => b[2] < a[2]

\* C8. At the level of who holds m_resource, under each policy the lock is
\* always Idle, SharedHeld(n) with n >= 1 or ExclusiveHeld, and every step
\* leaves that state unchanged or takes one of the transitions Idle to
\* SharedHeld(1), SharedHeld(n) to SharedHeld(n+1) or SharedHeld(n-1),
\* SharedHeld(1) to Idle, Idle to ExclusiveHeld, ExclusiveHeld to Idle; no
\* step goes between SharedHeld and ExclusiveHeld. In a FairOrder lock, while
\* a writer B waits for m_resource at line 125 no reader is added: from
\* SharedHeld(1), reader A holding, the states that follow are Idle and then
\* ExclusiveHeld.
StateMachine ==
    [][/\ LockState # Inconsistent
       /\ LockState' # Inconsistent
       /\ LockState' # LockState => Transition(LockState, LockState')
       /\ m_mode = "FairOrder" /\ (\E B \in Threads : pc[B] = 125)
              /\ LockState' # LockState
              => TransitionBehindWriter(LockState, LockState')]_vars

\* FairOrder, reader A then writer B: A holds shared access, the lock is
\* SharedHeld(1), B holds m_order and is blocked in m_cv.wait of m_resource,
\* every other thread is outside the lock.
StateMachineWitness ==
    \E A, B \in Threads :
        /\ m_mode = "FairOrder"
        /\ InShared(A)
        /\ LockState = SharedHeld(1)
        /\ pc[B] = 125
        /\ B \in cvWait["m_resource"]
        /\ \A t \in Threads \ {A, B} : pc[t] = 0 /\ held[t] = "none"

\* C9. ReadersPriority lets a writer starve. In every fairly scheduled
\* execution in which the readers keep acquiring with overlapping holds, a
\* writer calls AcquireExclusive and never returns from it, from its call on
\* m_readcount is never 0, each reader that holds shared access calls
\* ReleaseShared after a finite time and each such call returns, and again
\* and again a reader is inside AcquireShared. Such executions exist: the
\* fairness conditions are on steps of the lock and of its callers, so every
\* finite execution extends to a fair infinite one.
WriterStarves ==
    /\ <>(\E W \in Threads : pc[W] = 110)
    /\ [][\A W \in Threads : pc[W] = 110 => pc'[W] = 110]_vars
    /\ [](\A W \in Threads : pc[W] = 110 => m_readcount >= 1)
    /\ \A r \in Threads : held[r] = "shared" ~> held[r] = "none"
    /\ []<>(\E r \in Threads : pc[r] \in {150, 151, 152, 153})

\* The writer is blocked in m_cv.wait of m_resource while one reader is
\* inside ReleaseShared, past its decrement, and another holds shared access.
WriterStarvesWitness ==
    \E W, r, u \in Threads :
        /\ pc[W] = 110
        /\ W \in cvWait["m_resource"]
        /\ r # u
        /\ Releasing(r)
        /\ pc[r] = 181
        /\ InShared(u)
        /\ m_readcount >= 1

\* C10. WritersPriority lets a reader starve. In every fairly scheduled
\* execution in which the writers keep arriving, each one registered before
\* the one that holds calls ReleaseExclusive, a reader calls AcquireShared
\* and never returns from it (it never gets past line 158), from its call on
\* m_writecount is never 0, each writer that holds exclusive access releases
\* it after a finite time, and again and again a writer is inside
\* AcquireExclusive. Such executions exist: the fairness conditions are on
\* steps of the lock and of its callers.
ReaderStarves ==
    /\ <>(pc[Reader] = 158)
    /\ [][pc[Reader] = 158 => pc'[Reader] = 158]_vars
    /\ [](pc[Reader] = 158 => m_writecount >= 1)
    /\ \A w \in Threads : held[w] = "exclusive" ~> held[w] = "none"
    /\ []<>(\E w \in Threads : pc[w] \in {115, 116, 117, 118, 119})

\* The reader is blocked in m_cv.wait of m_order while one writer is inside
\* ReleaseExclusive, still counted in m_writecount, and another holds
\* exclusive access.
ReaderStarvesWitness ==
    \E w, u \in Threads :
        /\ pc[Reader] = 158
        /\ Reader \in cvWait["m_order"]
        /\ Releasing(w)
        /\ pc[w] \in {137, 138}
        /\ InExclusive(u)
        /\ m_writecount >= 2

\* C11. Binary Signal availability: under every policy and for each of the
\* four gates, m_avail is 0 or 1, and the gate has exactly one holder when it
\* is 0 and none when it is 1: every Release finds it 0 and sets it to 1, and
\* one Acquire succeeds for each unit of availability.
AvailabilityIsBinary ==
    \A s \in Semaphores :
        /\ m_avail[s] \in {0, 1}
        /\ Holders(s) = 1 - m_avail[s]

\* A Release has just set m_avail of m_rmutex to 1 and has not yet notified,
\* a thread is blocked in m_cv.wait of that gate, and m_resource is held.
AvailabilityIsBinaryWitness ==
    \E t, u \in Threads :
        /\ notifying[t]
        /\ pc[t] \in {153, 162, 173, 181, 189, 197}
        /\ m_avail["m_rmutex"] = 1
        /\ u \in cvWait["m_rmutex"]
        /\ m_avail["m_resource"] = 0

\* C12. Under every policy, a thread that calls AcquireExclusive while it
\* holds shared or exclusive access never returns from that call: once inside
\* it, every step leaves it inside.
RecursiveAcquireNeverReturns ==
    [][\A t \in Threads : InRecursiveAcquire(t) => InRecursiveAcquire(t)']_vars

\* A reader that asked for exclusive access is blocked on the resource gate
\* its own shared access keeps closed, and, in fair order, keeps the order
\* gate another thread waits for.
RecursiveAcquireNeverReturnsWitness ==
    \E t, u \in Threads :
        /\ held[t] = "shared"
        /\ pc[t] = 125
        /\ t \in cvWait["m_resource"]
        /\ u \in cvWait["m_order"]

\* C13. In every reachable state of every policy, m_readcount > 0 implies
\* that no writer holds m_resource, and a writer holding m_resource implies
\* m_readcount = 0.
ReadCountExcludesWriter ==
    /\ m_readcount > 0 => ~ \E w \in Threads : WriterHolds(w)
    /\ (\E w \in Threads : WriterHolds(w)) => m_readcount = 0

\* The first reader after its increment, before it has m_resource.
FirstReaderAtGate(t) == pc[t] \in {152, 161, 171}

\* C13, amended. While a writer holds m_resource, m_readcount is 0, or it is
\* 1 and counts the first reader, which has incremented m_readcount and has
\* not yet acquired m_resource; and while the readers hold m_resource no
\* writer holds it.
ReadCountExcludesWriterButFirstReader ==
    /\ (\E w \in Threads : WriterHolds(w)) =>
           \/ m_readcount = 0
           \/ m_readcount = 1 /\ \E r \in Threads : FirstReaderAtGate(r)
    /\ ReadersHold => ~ \E w \in Threads : WriterHolds(w)

\* A writer holds m_resource, and m_readcount is 1 for the first reader that
\* waits for it.
ReadCountExcludesWriterButFirstReaderWitness ==
    \E w, r \in Threads :
        /\ WriterHolds(w)
        /\ m_readcount = 1
        /\ FirstReaderAtGate(r)
        /\ r \in cvWait["m_resource"]

\* C14. In every reachable state of every policy, m_resource is unavailable
\* if and only if at least one reader is active (returned from AcquireShared,
\* ReleaseShared not yet called) or exactly one writer is active (returned
\* from AcquireExclusive, ReleaseExclusive not yet called), never both.
ResourceUnavailableIffActive ==
    /\ m_avail["m_resource"] = 0 <=>
           \/ \E r \in Threads : InShared(r)
           \/ Cardinality({w \in Threads : InExclusive(w)}) = 1
    /\ ~ ((\E r \in Threads : InShared(r)) /\ (\E w \in Threads : InExclusive(w)))

\* C14, amended. m_resource is unavailable if and only if the readers hold it
\* or exactly one writer holds it, never both, where holding lasts from the
\* successful m_resource.Acquire() inside the Acquire call to the
\* m_resource.Release() inside the Release call; an active reader or writer
\* implies that m_resource is unavailable, and at most one writer is active
\* and never together with a reader.
ResourceUnavailableIffHeld ==
    /\ m_avail["m_resource"] = 0 <=>
           \/ ReadersHold
           \/ Cardinality({w \in Threads : WriterHolds(w)}) = 1
    /\ ~ (ReadersHold /\ \E w \in Threads : WriterHolds(w))
    /\ (\E t \in Threads : InShared(t) \/ InExclusive(t)) => m_avail["m_resource"] = 0
    /\ Cardinality({w \in Threads : InExclusive(w)}) <= 1
    /\ ~ ((\E r \in Threads : InShared(r)) /\ (\E w \in Threads : InExclusive(w)))

\* The last reader has decremented m_readcount to 0 and has not released
\* m_resource yet: the gate is unavailable and no thread is active.
ResourceUnavailableIffHeldWitness ==
    /\ m_avail["m_resource"] = 0
    /\ m_readcount = 0
    /\ \E t \in Threads : pc[t] \in {180, 188, 196} /\ ~notifying[t]
    /\ \A t \in Threads : ~InShared(t) /\ ~InExclusive(t)

\* The thread is about to execute `++m_readcount == 1` or
\* `--m_readcount == 0`.
AtReadCount(t) == pc[t] \in {151, 160, 170, 179, 187, 195}

\* The thread is about to execute `++m_writecount == 1` or
\* `--m_writecount == 0`.
AtWriteCount(t) == pc[t] \in {116, 138}

\* C15. Every increment, decrement and test of m_readcount is executed by
\* a thread that holds m_rmutex, and every one of m_writecount by a thread that
\* holds m_wmutex; at most one thread at a time is between acquiring and
\* releasing each of the two mutex gates, so two threads never update a
\* counter concurrently.
CountersUnderMutex ==
    /\ [](\A t \in Threads :
            /\ AtReadCount(t) =>
                   /\ m_avail["m_rmutex"] = 0
                   /\ \A u \in Threads \ {t} : ~HoldsRmutex(u)
            /\ AtWriteCount(t) =>
                   /\ m_avail["m_wmutex"] = 0
                   /\ \A u \in Threads \ {t} : ~HoldsWmutex(u))
    /\ [](/\ Cardinality({t \in Threads : HoldsRmutex(t)}) <= 1
          /\ Cardinality({t \in Threads : HoldsWmutex(t)}) <= 1)
    /\ [][/\ m_readcount' # m_readcount =>
                \E t \in Threads :
                    AtReadCount(t) /\ HoldsRmutex(t) /\ pc'[t] # pc[t]
          /\ m_writecount' # m_writecount =>
                \E t \in Threads :
                    AtWriteCount(t) /\ HoldsWmutex(t) /\ pc'[t] # pc[t]]_vars

\* A reader is about to increment m_readcount while another reader waits
\* for m_rmutex, and a writer is about to increment m_writecount.
CountersUnderMutexWitness ==
    \E t, u, w \in Threads :
        /\ pc[t] = 160
        /\ u \in cvWait["m_rmutex"]
        /\ pc[w] = 116

\* C16. FairOrder: a writer holds m_order only from acquiring it until it has
\* obtained m_resource. Wherever a writer is in its critical section it does
\* not hold m_order: the gate is available or held by a thread that arrived
\* later, which is between m_order.Acquire() and m_order.Release() of its own
\* call (a writer queued on m_resource at line 125, or a reader at lines 169
\* to 172), so a thread about to execute m_order.Acquire() passes once no such
\* thread holds the gate.
WriterLeavesOrderGateOpen ==
    \A w \in Threads :
        m_mode = "FairOrder" /\ InExclusive(w) =>
            /\ ~HoldsOrder(w)
            /\ m_avail["m_order"] =
                   1 - Cardinality({u \in Threads \ {w} : HoldsOrder(u)})
            /\ \A u \in Threads \ {w} :
                   HoldsOrder(u) => pc[u] \in {125, 169, 170, 171, 172}
            /\ (\A u \in Threads : ~HoldsOrder(u)) => Available("m_order")

\* While a writer is in its critical section, a reader has passed m_order,
\* has registered in m_readcount and waits for m_resource, and a third thread
\* waits at m_order behind it.
WriterLeavesOrderGateOpenWitness ==
    \E w, r, u \in Threads :
        /\ m_mode = "FairOrder"
        /\ InExclusive(w)
        /\ pc[r] = 171
        /\ r \in cvWait["m_resource"]
        /\ m_readcount = 1
        /\ u \in cvWait["m_order"]

\* The thread has executed `++m_readcount` in AcquireShared and has not yet
\* executed `--m_readcount` in ReleaseShared.
CountedReader(t) ==
    \/ pc[t] \in {152, 153, 161, 162, 163, 171, 172, 173}
    \/ InShared(t)
    \/ pc[t] \in {178, 179, 186, 187, 194, 195}

\* The thread has executed `++m_writecount` in AcquireExclusive2 and has not
\* yet executed `--m_writecount` in ReleaseExclusive2.
CountedWriter(t) ==
    \/ pc[t] \in {117, 118, 119}
    \/ m_mode = "WritersPriority" /\ InExclusive(t)
    \/ pc[t] \in {136, 137, 138}

\* C17. m_readcount is the number of threads that have executed the
\* increment in AcquireShared and not yet the decrement in ReleaseShared;
\* m_writecount is, in WritersPriority, the number of threads that have
\* executed the increment in AcquireExclusive and not yet the decrement in
\* ReleaseExclusive (and 0 in the other policies); both are at least 0 and at
\* most the number of threads.
CountersCountThreads ==
    /\ m_readcount = Cardinality({t \in Threads : CountedReader(t)})
    /\ m_writecount = Cardinality({t \in Threads : CountedWriter(t)})
    /\ m_readcount \in 0..NumThreads
    /\ m_writecount \in 0..NumThreads

\* WritersPriority: one reader holds shared access and two writers,
\* counted in m_writecount, wait for m_resource.
CountersCountThreadsWitness ==
    \E r, w1, w2 \in Threads :
        /\ w1 # w2
        /\ InShared(r)
        /\ pc[w1] = 119 /\ pc[w2] = 119
        /\ m_readcount = 1
        /\ m_writecount = 2

\* The thread has work left: it is inside a call, or it holds access that it
\* has to release.
Unfinished(t) == pc[t] # 0 \/ held[t] # "none"

\* The thread can execute its next statement, or call the Release it owes.
CanStep(t) ==
    ENABLED (\/ Policy1(t) \/ Policy2(t) \/ Policy3(t)
             \/ ReleaseShared(t) \/ ReleaseExclusive(t))

\* C18. Under each policy no reachable state has every unfinished thread
\* blocked in Semaphore::Acquire: whenever some thread is blocked, some
\* unfinished thread is not blocked and can take a step.
DeadlockFree ==
    (\E t \in Threads : Blocked(t)) =>
        \E u \in Threads : Unfinished(u) /\ ~Blocked(u) /\ CanStep(u)

\* All threads but one are blocked in Semaphore::Acquire, behind a writer
\* that holds exclusive access.
DeadlockFreeWitness ==
    /\ Cardinality({t \in Threads : Blocked(t)}) = NumThreads - 1
    /\ \E w \in Threads : InExclusive(w)

\* The reader is between m_order.Acquire() and m_order.Release() in
\* AcquireShared2.
ReaderHoldsOrder(t) ==
    \/ pc[t] \in {159, 160, 161, 162}
    \/ pc[t] = 163 /\ ~notifying[t]

\* C19. WritersPriority: whenever a writer holds m_resource, m_order is
\* unavailable and held on behalf of the writers (acquired by the first writer
\* at line 117, to be released by the last one at line 139), so no reader is
\* between acquiring and releasing m_order in AcquireShared while a writer is
\* in its critical section.
WritersKeepOrderGate ==
    \A w \in Threads :
        m_mode = "WritersPriority" /\ WriterHolds(w) =>
            /\ m_avail["m_order"] = 0
            /\ WritersHoldOrder
            /\ m_writecount >= 1
            /\ \A r \in Threads : ~ReaderHoldsOrder(r)

\* A writer is in its critical section and a reader that called AcquireShared
\* waits for m_order at line 158.
WritersKeepOrderGateWitness ==
    \E w, r \in Threads :
        /\ m_mode = "WritersPriority"
        /\ InExclusive(w)
        /\ pc[r] = 158
        /\ r \in cvWait["m_order"]

\* The source lines with `s.Acquire();`.
AcquireLines(s) ==
    CASE s = "m_order" -> {117, 124, 158, 168}
      [] s = "m_resource" -> {110, 119, 125, 152, 161, 171}
      [] s = "m_rmutex" -> {150, 159, 169, 178, 186, 194}
      [] OTHER -> {115, 137}

\* The source lines with `s.Release();`.
ReleaseLines(s) ==
    CASE s = "m_order" -> {126, 139, 163, 172}
      [] s = "m_resource" -> {131, 136, 145, 180, 188, 196}
      [] s = "m_rmutex" -> {153, 162, 173, 181, 189, 197}
      [] OTHER -> {118, 140}

\* No wake-up is lost: while the semaphore is available and threads are
\* blocked in m_cv.wait, a notify_one is still to come (a Release is between
\* its m_avail++ and its notify_one), or a thread inside Acquire is awake and
\* about to check the predicate.
WakeUpPending ==
    \A s \in Semaphores :
        Available(s) /\ cvWait[s] # {} =>
            \/ \E t \in Threads : notifying[t] /\ pc[t] \in ReleaseLines(s)
            \/ \E t \in Threads : pc[t] \in AcquireLines(s) /\ ~Blocked(t)

\* Whenever the semaphore is available while the threads of W are blocked in
\* its Acquire, one of the threads of W eventually acquires it.
WaiterAcquires ==
    \A s \in Semaphores : \A W \in SUBSET Threads \ {{}} :
        (Available(s) /\ cvWait[s] = W)
            ~> (\E u \in W : pc[u] \notin AcquireLines(s))

\* C20. The Semaphore behaves as an atomic binary semaphore with no lost
\* wake-up: under balanced use no reachable state has m_avail > 0 while
\* threads are blocked in Acquire and none of them has been notified or will
\* check the predicate again, and whenever the semaphore is available and a
\* thread is waiting, some waiting thread eventually acquires it.
NoLostWakeUp == []WakeUpPending /\ WaiterAcquires
====
